---------------------------- MODULE Spec2Model ----------------------------
(***************************************************************************)
(* Model of the CalmaWebsite front-end scripts:                            *)
(*   src/js/touch-enhancements.js  (touch gesture layer)                   *)
(*   src/js/gsap-optimizations.js  (animation orchestrator)                *)
(* Each subsystem has its own specification (SpecMenu, SpecSlider, ...);   *)
(* the variables of the other subsystems stay unchanged under it.          *)
(***************************************************************************)
EXTENDS Integers, Naturals, Sequences, FiniteSets, TLC

Abs(n) == IF n < 0 THEN -n ELSE n

(***************************************************************************)
(* Input domains (client coordinates in px, durations in ms).              *)
(***************************************************************************)
MenuXs == {0, 10, 100, 110, 111, 130}
MenuYs == {0, 10, 50}
SliderXs == {0, 40, 50, 51, 100}
SliderYs == {0, 10, 11, 60}
\* real duration of a gesture session, touch-start to touch-end
Elapsed == {40, 80, 200}
\* milliseconds by which the clock advances between the two Date.now()
\* reads of one evaluation of line 286
ClockTicks == {0, 1}
\* clientX of the touches on an image container
ImageXs == {0, 50, 51, 101}
\* inline display and visibility values given to the mobile menu
Displays == {"", "none", "block", "flex"}
Visibilities == {"", "hidden", "visible"}

VARIABLES
  \* ---- mobile menu (module-level gesture tracking, lines 15-19) ----
  touchStartX, touchStartY, touchEndX, isScrolling,
  menuOpen,        \* the .w-nav-button carries the class w--open
  menuPhase,       \* "idle" | "tracking": position in the touch sequence
  menuLast,        \* what the last menu handler received and did
  \* ---- slider (closure state of setupSliderSwipe, lines 226-230) ----
  startX, startY, currentX, isDragging, isVerticalScroll,
  dataAutoplay,    \* attribute data-autoplay: "true" | "false" | "absent"
  dataTempAutoplay,\* attribute data-temp-autoplay: "true" | "absent"
  autoplayBefore,  \* data-autoplay as the page was loaded
  leftArrow, rightArrow, \* the arrows exist in the slider
  sliderPhase,     \* "idle" | "tracking"
  sliderLast,      \* what the last slider handler received and did
  \* ---- ripples (createRippleEffect, lines 73-107) ----
  rippleParent,    \* ripple id -> parentNode: an element, or "none" (null)
  rippleTimer,     \* ripple id -> "unset" | "pending" | "fired"
  rippleLast,      \* what the last ripple step did
  \* ---- scroll throttle (setupScrollOptimizations, lines 430-451) ----
  ticking,
  rafQueue,        \* number of updateScrollPosition callbacks scheduled
  pageYOffset,
  scrolled,        \* body carries the class 'scrolled'
  scrollLast,      \* scroll events since the last frame, updates it ran
  \* ---- animation orchestrator (gsap-optimizations.js) ----
  gsapLoaded, scrollTriggerLoaded, splitTypeLoaded, \* globals are defined
  dom,             \* element id -> kind of element, or "absent"
  willChange,      \* target -> style.willChange ("" when never set)
  splitDone,       \* headings carrying data-split-done
  regs,            \* calls made to gsap / timelines, in order
  completed,       \* indices of regs whose onComplete has run
  refreshes,       \* calls of ScrollTrigger.refresh()
  gsapLast,        \* outcome of the last run of initGSAPOptimizations
  \* ---- image container (closure state of setupImageSwipe, 176-178) ----
  imgStartX, imgCurrentX, imgDragging,
  imgTransform,    \* style.transform of the container
  imgTransition,   \* style.transition of the container
  imgTimers,       \* pending 200ms timers of navigateImage
  imgPhase,        \* "idle" | "tracking"
  imgLast,         \* what the last image handler received and dispatched
  \* ---- scroll lock (observer of setupMobileMenuEnhancements) ----
  menuDisplay,     \* .mobile-menu style.display
  menuVisibility,  \* .mobile-menu style.visibility
  obsPending,      \* mutation records queued for the observer
  bodyOverflow,    \* document.body style.overflow
  obsLast          \* what the last observer step did

menuVars == <<touchStartX, touchStartY, touchEndX, isScrolling, menuOpen,
              menuPhase, menuLast>>
sliderVars == <<startX, startY, currentX, isDragging, isVerticalScroll,
                dataAutoplay, dataTempAutoplay, autoplayBefore, leftArrow,
                rightArrow, sliderPhase, sliderLast>>
rippleVars == <<rippleParent, rippleTimer, rippleLast>>
scrollVars == <<ticking, rafQueue, pageYOffset, scrolled, scrollLast>>
gsapVars == <<gsapLoaded, scrollTriggerLoaded, splitTypeLoaded, dom,
              willChange, splitDone, regs, completed, refreshes, gsapLast>>
imageVars == <<imgStartX, imgCurrentX, imgDragging, imgTransform,
               imgTransition, imgTimers, imgPhase, imgLast>>
observerVars == <<menuDisplay, menuVisibility, obsPending, bodyOverflow,
                  obsLast>>
vars == <<touchStartX, touchStartY, touchEndX, isScrolling, menuOpen,
          menuPhase, menuLast,
          startX, startY, currentX, isDragging, isVerticalScroll,
          dataAutoplay, dataTempAutoplay, autoplayBefore, leftArrow,
          rightArrow, sliderPhase, sliderLast,
          rippleParent, rippleTimer, rippleLast,
          ticking, rafQueue, pageYOffset, scrolled, scrollLast,
          gsapLoaded, scrollTriggerLoaded, splitTypeLoaded, dom,
          willChange, splitDone, regs, completed, refreshes, gsapLast,
          imgStartX, imgCurrentX, imgDragging, imgTransform, imgTransition,
          imgTimers, imgPhase, imgLast,
          menuDisplay, menuVisibility, obsPending, bodyOverflow, obsLast>>

(***************************************************************************)
(* Mobile menu: setupSwipeToClose and closeMobileMenu.                     *)
(***************************************************************************)
swipeThresholdMenu == 100

\* fresh: the tracking values of a copy of the listeners that enters every
\* session from the values of lines 15-19; fcloses: the calls of
\* closeMobileMenu that copy makes; stale: isScrolling as the session found it
NoMenuLast == [ev |-> "none", sx |-> 0, ex |-> 0, vert |-> FALSE,
               closes |-> 0, clicks |-> 0,
               fresh |-> [sx |-> 0, sy |-> 0, scrolling |-> FALSE],
               fcloses |-> 0, stale |-> FALSE]

InitMenu ==
  /\ touchStartX = 0
  /\ touchStartY = 0
  /\ touchEndX = 0
  /\ isScrolling = FALSE
  /\ menuOpen \in BOOLEAN
  /\ menuPhase = "idle"
  /\ menuLast = NoMenuLast

\* faulty variant: the button is clicked whatever its state
CloseMobileMenuClicks_Always(open) == 1

\* closeMobileMenu(): 1 when the toggle button is clicked, else 0
CloseMobileMenuClicks(open) == IF open THEN 1 ELSE 0

\* the menu widget toggles on a click of its button
MenuAfterClicks(open, n) == IF n = 1 THEN ~open ELSE open

\* faulty variant: touchstart leaves the flag as the last session left it
MenuStartScrolling_Keeps(scrolling) == scrolling

\* touchstart, line 135: isScrolling = false
MenuStartScrolling(scrolling) == FALSE

\* touchstart listener, lines 132-136
MenuTouchStart ==
  /\ menuPhase = "idle"
  /\ \E x \in MenuXs, y \in MenuYs :
       /\ touchStartX' = x
       /\ touchStartY' = y
       /\ menuLast' = [NoMenuLast EXCEPT !.ev = "start", !.sx = x,
                         !.stale = isScrolling,
                         !.fresh = [sx |-> x, sy |-> y,
                                    scrolling |-> MenuStartScrolling(FALSE)]]
  /\ isScrolling' = MenuStartScrolling(isScrolling)
  /\ menuPhase' = "tracking"
  /\ UNCHANGED <<touchEndX, menuOpen>>

\* touchmove listener, lines 138-150
MenuMoveScrolling(sx, sy, x, y, scrolling) ==
  IF sx = 0 \/ sy = 0 THEN scrolling
  ELSE IF Abs(sy - y) > Abs(sx - x) THEN TRUE ELSE scrolling

MenuTouchMove ==
  /\ menuPhase = "tracking"
  /\ \E x \in MenuXs, y \in MenuYs :
       /\ isScrolling' = MenuMoveScrolling(touchStartX, touchStartY, x, y,
                                           isScrolling)
       /\ menuLast' = [menuLast EXCEPT !.ev = "move", !.closes = 0,
                         !.clicks = 0,
                         !.fresh.scrolling =
                            MenuMoveScrolling(menuLast.fresh.sx,
                                              menuLast.fresh.sy, x, y,
                                              menuLast.fresh.scrolling)]
  /\ UNCHANGED <<touchStartX, touchStartY, touchEndX, menuOpen, menuPhase>>

\* faulty variant: the threshold compared with >= instead of >
MenuEndCloses_GE(sx, ex) == IF sx - ex >= swipeThresholdMenu THEN 1 ELSE 0

\* number of closeMobileMenu() calls made by touchend, lines 156-162
MenuEndCloses(sx, ex) == IF sx - ex > swipeThresholdMenu THEN 1 ELSE 0

\* touchend listener, lines 152-169
MenuTouchEnd ==
  /\ menuPhase = "tracking"
  /\ menuPhase' = "idle"
  /\ \E ex \in MenuXs :
       LET fc == IF menuLast.fresh.scrolling THEN 0
                 ELSE MenuEndCloses(menuLast.fresh.sx, ex)
       IN
       IF isScrolling
       THEN /\ menuLast' = [menuLast EXCEPT !.ev = "end", !.ex = ex,
                              !.vert = TRUE, !.closes = 0, !.clicks = 0,
                              !.fcloses = fc]
            /\ UNCHANGED <<touchStartX, touchStartY, touchEndX, isScrolling,
                           menuOpen>>
       ELSE LET closes == MenuEndCloses(touchStartX, ex)
                clicks == IF closes = 1 THEN CloseMobileMenuClicks(menuOpen)
                          ELSE 0
            IN /\ menuOpen' = MenuAfterClicks(menuOpen, clicks)
               /\ menuLast' = [menuLast EXCEPT !.ev = "end", !.ex = ex,
                                 !.vert = FALSE, !.closes = closes,
                                 !.clicks = clicks, !.fcloses = fc]
               /\ touchStartX' = 0
               /\ touchStartY' = 0
               /\ touchEndX' = 0
               /\ isScrolling' = FALSE

\* touchcancel: the menu has no touchcancel listener; the sequence just ends
MenuTouchCancel ==
  /\ menuPhase = "tracking"
  /\ menuPhase' = "idle"
  /\ menuLast' = [menuLast EXCEPT !.ev = "cancel", !.closes = 0,
                                   !.clicks = 0]
  /\ UNCHANGED <<touchStartX, touchStartY, touchEndX, isScrolling, menuOpen>>

\* window.TouchEnhancements.closeMobileMenu() called by another script
CallCloseMobileMenu ==
  /\ LET clicks == CloseMobileMenuClicks(menuOpen)
     IN /\ menuOpen' = MenuAfterClicks(menuOpen, clicks)
        /\ menuLast' = [menuLast EXCEPT !.ev = "call", !.closes = 1,
                                        !.clicks = clicks]
  /\ UNCHANGED <<touchStartX, touchStartY, touchEndX, isScrolling, menuPhase>>

\* the user taps the toggle button while the menu is closed (widget opens it)
UserOpensMenu ==
  /\ menuPhase = "idle"
  /\ ~menuOpen
  /\ menuOpen' = TRUE
  /\ menuLast' = [menuLast EXCEPT !.ev = "open", !.closes = 0, !.clicks = 0]
  /\ UNCHANGED <<touchStartX, touchStartY, touchEndX, isScrolling, menuPhase>>

otherThanMenu == <<sliderVars, rippleVars, scrollVars, gsapVars, imageVars,
                   observerVars>>

NextMenu ==
  \/ MenuTouchStart /\ UNCHANGED otherThanMenu
  \/ MenuTouchMove /\ UNCHANGED otherThanMenu
  \/ MenuTouchEnd /\ UNCHANGED otherThanMenu
  \/ MenuTouchCancel /\ UNCHANGED otherThanMenu
  \/ CallCloseMobileMenu /\ UNCHANGED otherThanMenu
  \/ UserOpensMenu /\ UNCHANGED otherThanMenu

(***************************************************************************)
(* Slider: setupSliderSwipe (only sliders with a .w-slider-mask get         *)
(* listeners, line 236; a slider without one has no gesture handling).     *)
(***************************************************************************)
swipeThreshold == 50
moveThreshold == 10

NoSliderLast == [ev |-> "none", sx |-> 0, ex |-> 0, elapsed |-> 0,
                 vert |-> FALSE, left |-> 0, right |-> 0,
                 prevented |-> FALSE, vseen |-> FALSE,
                 fresh |-> [sx |-> 0, sy |-> 0, dragging |-> FALSE,
                            vertical |-> FALSE],
                 fleft |-> 0, fright |-> 0]

InitSlider ==
  /\ startX = 0
  /\ startY = 0
  /\ currentX = 0
  /\ isDragging = FALSE
  /\ isVerticalScroll = FALSE
  /\ dataAutoplay \in {"true", "false", "absent"}
  /\ dataTempAutoplay = "absent"
  /\ autoplayBefore = dataAutoplay
  /\ leftArrow \in BOOLEAN
  /\ rightArrow \in BOOLEAN
  /\ sliderPhase = "idle"
  /\ sliderLast = NoSliderLast

\* touchstart listener, lines 239-250
SliderTouchStart ==
  /\ sliderPhase = "idle"
  /\ sliderPhase' = "tracking"
  /\ \E x \in SliderXs, y \in SliderYs :
       /\ startX' = x
       /\ startY' = y
       /\ sliderLast' = [NoSliderLast EXCEPT !.ev = "start", !.sx = x,
                           !.fresh = [sx |-> x, sy |-> y, dragging |-> TRUE,
                                      vertical |-> FALSE]]
  /\ isDragging' = TRUE
  /\ isVerticalScroll' = FALSE
  /\ IF dataAutoplay = "true"
     THEN dataTempAutoplay' = "true" /\ dataAutoplay' = "false"
     ELSE UNCHANGED <<dataAutoplay, dataTempAutoplay>>
  /\ UNCHANGED <<currentX, autoplayBefore, leftArrow, rightArrow>>

\* touchmove classification, line 262
MoveIsVertical(diffX, diffY) == diffY > diffX /\ diffY > moveThreshold

\* faulty variant: the classification of the session is not consulted
MovePrevents_IgnoresVertical(diffX, vertical) == diffX > moveThreshold

\* touchmove: e.preventDefault() is called, line 268
MovePrevents(diffX, vertical) == diffX > moveThreshold /\ ~vertical

\* the touchmove listener applied to the tracking values f of the copy of
\* the listeners that enters every session from lines 226-230
FreshAfterMove(f, x, y) ==
  IF ~f.dragging THEN f
  ELSE IF MoveIsVertical(Abs(x - f.sx), Abs(y - f.sy))
       THEN [f EXCEPT !.vertical = TRUE]
       ELSE f

\* touchmove listener, lines 253-271
SliderTouchMove ==
  /\ sliderPhase = "tracking"
  /\ \E x \in SliderXs, y \in SliderYs :
       IF ~isDragging
       THEN /\ sliderLast' = [sliderLast EXCEPT !.ev = "move",
                                 !.prevented = FALSE,
                                 !.fresh = FreshAfterMove(sliderLast.fresh,
                                                          x, y)]
            /\ UNCHANGED <<currentX, isVerticalScroll>>
       ELSE LET diffX == Abs(x - startX)
                diffY == Abs(y - startY)
                \* ghost: some move of this session was mostly vertical
                seen == \/ sliderLast.vseen
                        \/ Abs(y - startY) > Abs(x - startX) /\ Abs(y - startY) > 10
            IN /\ currentX' = x
               /\ IF MoveIsVertical(diffX, diffY)
                  THEN /\ isVerticalScroll' = TRUE
                       /\ sliderLast' = [sliderLast EXCEPT !.ev = "move",
                                           !.prevented = FALSE,
                                           !.vseen = seen,
                                           !.fresh = FreshAfterMove(
                                              sliderLast.fresh, x, y)]
                  ELSE /\ isVerticalScroll' = isVerticalScroll
                       /\ sliderLast' = [sliderLast EXCEPT !.ev = "move",
                            !.prevented = MovePrevents(diffX, isVerticalScroll),
                            !.vseen = seen,
                            !.fresh = FreshAfterMove(sliderLast.fresh, x, y)]
  /\ UNCHANGED <<startX, startY, isDragging, dataAutoplay, dataTempAutoplay,
                 autoplayBefore, leftArrow, rightArrow, sliderPhase>>

\* line 286: Date.now() - (slider._touchStartTime || Date.now()); nothing
\* ever assigns slider._touchStartTime, so both operands are clock reads
TimeDiff(tick) == 0 - tick

\* line 287 and the comparison of line 290: |diffX| / timeDiff > 0.5 in
\* IEEE arithmetic (n/0 is Infinity, 0/0 is NaN, NaN compares false)
VelocityExceeds(absDiffX, timeDiff) ==
  IF timeDiff = 0 THEN absDiffX > 0
  ELSE IF timeDiff > 0 THEN 2 * absDiffX > timeDiff
  ELSE FALSE

\* line 290
SwipeRecognized(diffX, timeDiff) ==
  Abs(diffX) > swipeThreshold \/ VelocityExceeds(Abs(diffX), timeDiff)

\* lines 291-297: clicks on the left and on the right arrow
LeftClicks(diffX, timeDiff, hasLeft) ==
  IF SwipeRecognized(diffX, timeDiff) /\ diffX > 0 /\ hasLeft THEN 1 ELSE 0

RightClicks(diffX, timeDiff, hasRight) ==
  IF SwipeRecognized(diffX, timeDiff) /\ ~(diffX > 0) /\ hasRight
  THEN 1 ELSE 0

\* resetSliderTouch, lines 303-312
ResetSliderTouch ==
  /\ isDragging' = FALSE
  /\ isVerticalScroll' = FALSE
  /\ IF dataTempAutoplay = "true"
     THEN dataAutoplay' = "true" /\ dataTempAutoplay' = "absent"
     ELSE UNCHANGED <<dataAutoplay, dataTempAutoplay>>

\* touchend listener, lines 274-301
SliderTouchEnd ==
  /\ sliderPhase = "tracking"
  /\ sliderPhase' = "idle"
  /\ \E ex \in SliderXs, el \in Elapsed, tick \in ClockTicks :
       LET f == sliderLast.fresh
           skip == ~f.dragging \/ f.vertical
           fl == IF skip THEN 0
                 ELSE LeftClicks(ex - f.sx, TimeDiff(tick), leftArrow)
           fr == IF skip THEN 0
                 ELSE RightClicks(ex - f.sx, TimeDiff(tick), rightArrow)
       IN
       IF ~isDragging \/ isVerticalScroll
       THEN sliderLast' = [sliderLast EXCEPT !.ev = "end", !.ex = ex,
                             !.elapsed = el, !.vert = isVerticalScroll,
                             !.prevented = FALSE,
                             !.fleft = fl, !.fright = fr]
       ELSE LET diffX == ex - startX
                timeDiff == TimeDiff(tick)
            IN sliderLast' = [sliderLast EXCEPT !.ev = "end", !.ex = ex,
                                !.elapsed = el, !.vert = FALSE,
                                !.prevented = FALSE,
                                !.left = LeftClicks(diffX, timeDiff, leftArrow),
                                !.right = RightClicks(diffX, timeDiff,
                                                      rightArrow),
                                !.fleft = fl, !.fright = fr]
  /\ ResetSliderTouch
  /\ UNCHANGED <<startX, startY, currentX, autoplayBefore, leftArrow,
                 rightArrow>>

\* touchcancel: the slider has no touchcancel listener; the sequence ends
SliderTouchCancel ==
  /\ sliderPhase = "tracking"
  /\ sliderPhase' = "idle"
  /\ sliderLast' = [sliderLast EXCEPT !.ev = "cancel", !.prevented = FALSE]
  /\ UNCHANGED <<startX, startY, currentX, isDragging, isVerticalScroll,
                 dataAutoplay, dataTempAutoplay, autoplayBefore, leftArrow,
                 rightArrow>>

otherThanSlider == <<menuVars, rippleVars, scrollVars, gsapVars, imageVars,
                     observerVars>>

NextSlider ==
  \/ SliderTouchStart /\ UNCHANGED otherThanSlider
  \/ SliderTouchMove /\ UNCHANGED otherThanSlider
  \/ SliderTouchEnd /\ UNCHANGED otherThanSlider
  \/ SliderTouchCancel /\ UNCHANGED otherThanSlider

(***************************************************************************)
(* Image containers: setupImageSwipe and navigateImage.  A transform is a  *)
(* record: translateX in tenths of a pixel, scale in hundredths; "none" is *)
(* the container without an inline transform.                              *)
(***************************************************************************)
MaxImgTimers == 2
imageThreshold == 50

NoTransform == [f |-> "none", v |-> 0]
TranslateX(tenths) == [f |-> "translateX", v |-> tenths]
Scale(hundredths) == [f |-> "scale", v |-> hundredths]

\* line 193: translateX(${diffX * 0.3}px)
DragPreview(diffX) == TranslateX(3 * diffX)

NoImgLast == [ev |-> "none", sx |-> 0, ex |-> 0, moved |-> FALSE,
              dispatched |-> <<>>]

InitImage ==
  /\ imgStartX = 0
  /\ imgCurrentX = 0
  /\ imgDragging = FALSE
  /\ imgTransform = NoTransform
  /\ imgTransition = ""
  /\ imgTimers = 0
  /\ imgPhase = "idle"
  /\ imgLast = NoImgLast

\* touchstart listener, lines 180-184
ImageTouchStart ==
  /\ imgPhase = "idle"
  /\ imgPhase' = "tracking"
  /\ \E x \in ImageXs :
       /\ imgStartX' = x
       /\ imgLast' = [NoImgLast EXCEPT !.ev = "start", !.sx = x]
  /\ imgDragging' = TRUE
  /\ imgTransition' = "none"
  /\ UNCHANGED <<imgCurrentX, imgTransform, imgTimers>>

\* touchmove listener, lines 186-194
ImageTouchMove ==
  /\ imgPhase = "tracking"
  /\ \E x \in ImageXs :
       IF ~imgDragging
       THEN /\ imgLast' = [imgLast EXCEPT !.ev = "move"]
            /\ UNCHANGED <<imgCurrentX, imgTransform>>
       ELSE /\ imgCurrentX' = x
            /\ imgTransform' = DragPreview(x - imgStartX)
            /\ imgLast' = [imgLast EXCEPT !.ev = "move", !.moved = TRUE]
  /\ UNCHANGED <<imgStartX, imgDragging, imgTransition, imgTimers, imgPhase>>

\* faulty variant: a displacement of exactly the threshold navigates
ImageEndEvents_GE(diffX) ==
  IF Abs(diffX) >= imageThreshold
  THEN <<IF diffX > 0 THEN "prev" ELSE "next">>
  ELSE <<>>

\* lines 208-216: the directions navigateImage is called with
ImageEndEvents(diffX) ==
  IF Abs(diffX) > imageThreshold
  THEN <<IF diffX > 0 THEN "prev" ELSE "next">>
  ELSE <<>>

\* navigateImage, line 320
NavigateTransform(direction) ==
  IF direction = "next" THEN Scale(95) ELSE Scale(105)

\* touchend listener, lines 196-219, with navigateImage (lines 318-331):
\* the feedback transform, its 200ms timer and the imageNavigate event
ImageTouchEnd ==
  /\ imgPhase = "tracking"
  /\ imgPhase' = "idle"
  /\ \E ex \in ImageXs :
       IF ~imgDragging
       THEN /\ imgLast' = [imgLast EXCEPT !.ev = "end", !.ex = ex,
                                          !.dispatched = <<>>]
            /\ UNCHANGED <<imgDragging, imgTransform, imgTransition,
                           imgTimers>>
       ELSE LET diffX == ex - imgStartX
                evs == ImageEndEvents(diffX)
            IN /\ Len(evs) > 0 => imgTimers < MaxImgTimers
               /\ imgTransition' = "transform 0.3s ease"
               /\ imgTransform' = IF Len(evs) = 0 THEN TranslateX(0)
                                  ELSE NavigateTransform(evs[1])
               /\ imgTimers' = imgTimers + Len(evs)
               /\ imgDragging' = FALSE
               /\ imgLast' = [imgLast EXCEPT !.ev = "end", !.ex = ex,
                                             !.dispatched = evs]
  /\ UNCHANGED <<imgStartX, imgCurrentX>>

\* touchcancel: the container has no touchcancel listener; the sequence ends
ImageTouchCancel ==
  /\ imgPhase = "tracking"
  /\ imgPhase' = "idle"
  /\ imgLast' = [imgLast EXCEPT !.ev = "cancel"]
  /\ UNCHANGED <<imgStartX, imgCurrentX, imgDragging, imgTransform,
                 imgTransition, imgTimers>>

\* the timer callback of navigateImage, lines 322-324
ImageTimerFire ==
  /\ imgTimers > 0
  /\ imgTimers' = imgTimers - 1
  /\ imgTransform' = Scale(100)
  /\ UNCHANGED <<imgStartX, imgCurrentX, imgDragging, imgTransition,
                 imgPhase, imgLast>>

otherThanImage == <<menuVars, sliderVars, rippleVars, scrollVars, gsapVars,
                    observerVars>>

NextImage ==
  \/ ImageTouchStart /\ UNCHANGED otherThanImage
  \/ ImageTouchMove /\ UNCHANGED otherThanImage
  \/ ImageTouchEnd /\ UNCHANGED otherThanImage
  \/ ImageTouchCancel /\ UNCHANGED otherThanImage
  \/ ImageTimerFire /\ UNCHANGED otherThanImage

(***************************************************************************)
(* Scroll lock: the MutationObserver of setupMobileMenuEnhancements (only  *)
(* installed when a .mobile-menu element exists, line 363).                *)
(***************************************************************************)
MaxMutations == 3

NoObsLast == [ev |-> "none", records |-> 0]

InitObserver ==
  /\ menuDisplay = ""
  /\ menuVisibility = ""
  /\ obsPending = 0
  /\ bodyOverflow = ""
  /\ obsLast = NoObsLast

\* faulty variant: one of the two properties is enough to count as visible
IsVisible_Either(display, visibility) ==
  display # "none" \/ visibility # "hidden"

\* lines 367-368
IsVisible(display, visibility) ==
  display # "none" /\ visibility # "hidden"

\* lines 370-374
OverflowFor(visible) == IF visible THEN "hidden" ELSE ""

\* mutations.forEach, lines 365-376: every record reads the current style
RECURSIVE ProcessRecords(_, _, _, _)
ProcessRecords(n, display, visibility, overflow) ==
  IF n = 0 THEN overflow
  ELSE ProcessRecords(n - 1, display, visibility,
                      OverflowFor(IsVisible(display, visibility)))

\* a script (the menu widget) writes the inline style of the menu: one
\* attribute record is queued for the observer, lines 379-382
MenuStyleChange ==
  /\ obsPending < MaxMutations
  /\ \E d \in Displays, v \in Visibilities :
       /\ menuDisplay' = d
       /\ menuVisibility' = v
  /\ obsPending' = obsPending + 1
  /\ obsLast' = [ev |-> "change", records |-> 0]
  /\ UNCHANGED bodyOverflow

\* the observer callback receives the queued records, lines 364-377
ObserverCallback ==
  /\ obsPending > 0
  /\ bodyOverflow' =
       ProcessRecords(obsPending, menuDisplay, menuVisibility, bodyOverflow)
  /\ obsPending' = 0
  /\ obsLast' = [ev |-> "callback", records |-> obsPending]
  /\ UNCHANGED <<menuDisplay, menuVisibility>>

otherThanObserver == <<menuVars, sliderVars, rippleVars, scrollVars, gsapVars,
                       imageVars>>

NextObserver ==
  \/ MenuStyleChange /\ UNCHANGED otherThanObserver
  \/ ObserverCallback /\ UNCHANGED otherThanObserver

(***************************************************************************)
(* Ripples: setupTouchFeedback (lines 49-53) and createRippleEffect.       *)
(***************************************************************************)
MaxRipples == 3
RippleIds == 1..MaxRipples
\* elements that carry the touch-feedback listeners
TouchEls == {"navlink", "button", "page-link"}

NoRippleLast == [ev |-> "none", id |-> 0, error |-> FALSE]

InitRipple ==
  /\ rippleParent = [r \in RippleIds |-> "none"]
  /\ rippleTimer = [r \in RippleIds |-> "unset"]
  /\ rippleLast = NoRippleLast

Created == {r \in RippleIds : rippleTimer[r] # "unset"}

\* touchstart listener, lines 51-53, and createRippleEffect, lines 73-106:
\* a new node is appended to the element and its removal timer is started
RippleTouchStart ==
  /\ Cardinality(Created) < MaxRipples
  /\ LET id == Cardinality(Created) + 1
     IN \E el \in TouchEls :
          /\ rippleParent' = [rippleParent EXCEPT ![id] = el]
          /\ rippleTimer' = [rippleTimer EXCEPT ![id] = "pending"]
          /\ rippleLast' = [ev |-> "create", id |-> id, error |-> FALSE]

\* another script detaches a ripple node from its parent
ExternalDetach ==
  \E id \in RippleIds :
    /\ rippleParent[id] # "none"
    /\ rippleParent' = [rippleParent EXCEPT ![id] = "none"]
    /\ rippleLast' = [ev |-> "detach", id |-> id, error |-> FALSE]
    /\ UNCHANGED rippleTimer

\* faulty variant: the callback leaves the node in place
ParentsAfterTimer_Keeps(parents, id) == parents

\* timer callback, lines 102-106: parentNode.removeChild(ripple) if attached
ParentsAfterTimer(parents, id) ==
  IF parents[id] # "none" THEN [parents EXCEPT ![id] = "none"] ELSE parents

\* the callback dereferences parentNode only after checking it, line 103
TimerRaises(parents, id) == FALSE

\* the 600ms timers have equal delays, so they fire in creation order
RippleTimerFire ==
  \E id \in RippleIds :
    /\ rippleTimer[id] = "pending"
    /\ \A r \in RippleIds : r < id => rippleTimer[r] # "pending"
    /\ rippleTimer' = [rippleTimer EXCEPT ![id] = "fired"]
    /\ rippleParent' = ParentsAfterTimer(rippleParent, id)
    /\ rippleLast' = [ev |-> "timer", id |-> id,
                      error |-> TimerRaises(rippleParent, id)]

otherThanRipple == <<menuVars, sliderVars, scrollVars, gsapVars, imageVars,
                     observerVars>>

NextRipple ==
  \/ RippleTouchStart /\ UNCHANGED otherThanRipple
  \/ ExternalDetach /\ UNCHANGED otherThanRipple
  \/ RippleTimerFire /\ UNCHANGED otherThanRipple

(***************************************************************************)
(* Scroll-class throttle: setupScrollOptimizations, lines 430-451.         *)
(***************************************************************************)
scrollClassThreshold == 100
Offsets == {0, 100, 101, 300}
\* scroll events counted between two animation frames
MaxScrollEvents == 3

InitScroll ==
  /\ ticking = FALSE
  /\ rafQueue = 0
  /\ pageYOffset \in Offsets
  /\ scrolled = FALSE
  /\ scrollLast = [ev |-> "none", events |-> 0, updates |-> 0, y |-> 0,
                   seen |-> FALSE, read |-> 0]

\* faulty variant: the listener schedules a callback for every event
ScheduledAfterScroll_Always(tick, queued) == queued + 1

\* scroll listener, lines 446-451: callbacks scheduled after the event
ScheduledAfterScroll(tick, queued) == IF ~tick THEN queued + 1 ELSE queued

\* scroll events since the last animation frame
EventsSinceFrame == IF scrollLast.ev = "scroll" THEN scrollLast.events ELSE 0

ScrollEvent ==
  /\ EventsSinceFrame < MaxScrollEvents
  /\ \E y \in Offsets : pageYOffset' = y
  /\ rafQueue' = ScheduledAfterScroll(ticking, rafQueue)
  /\ ticking' = TRUE
  /\ scrollLast' = [scrollLast EXCEPT !.ev = "scroll",
                                      !.events = EventsSinceFrame + 1,
                                      !.seen = TRUE]
  /\ UNCHANGED scrolled

\* updateScrollPosition, lines 433-444: the class after the update
ScrolledClass(y) == y > scrollClassThreshold

\* faulty variant: the callback leaves the pending flag set
AnimationFrame_KeepsTicking ==
  /\ rafQueue' = 0
  /\ IF rafQueue > 0
     THEN scrolled' = ScrolledClass(pageYOffset) /\ ticking' = TRUE
     ELSE UNCHANGED <<scrolled, ticking>>
  /\ scrollLast' = [ev |-> "frame", events |-> EventsSinceFrame,
                    updates |-> rafQueue, y |-> pageYOffset,
                    seen |-> scrollLast.seen,
                    read |-> IF rafQueue > 0 THEN pageYOffset
                             ELSE scrollLast.read]
  /\ UNCHANGED pageYOffset

\* an animation frame: the browser runs every scheduled callback; seen and
\* read are ghosts (a scroll event has occurred, the offset the last
\* updateScrollPosition read)
AnimationFrame ==
  /\ rafQueue' = 0
  /\ IF rafQueue > 0
     THEN scrolled' = ScrolledClass(pageYOffset) /\ ticking' = FALSE
     ELSE UNCHANGED <<scrolled, ticking>>
  /\ scrollLast' = [ev |-> "frame", events |-> EventsSinceFrame,
                    updates |-> rafQueue, y |-> pageYOffset,
                    seen |-> scrollLast.seen,
                    read |-> IF rafQueue > 0 THEN pageYOffset
                             ELSE scrollLast.read]
  /\ UNCHANGED pageYOffset

otherThanScroll == <<menuVars, sliderVars, rippleVars, gsapVars, imageVars,
                     observerVars>>

NextScroll ==
  \/ ScrollEvent /\ UNCHANGED otherThanScroll
  \/ AnimationFrame /\ UNCHANGED otherThanScroll

(***************************************************************************)
(* Animation orchestrator: gsap-optimizations.js.                          *)
(* The page is a set of elements 1..MaxElements in document order, each of *)
(* a kind that fixes the selectors it matches and the container it is in.  *)
(* Element 0 is the stats container (.location.stats.div), present when    *)
(* some element lies within it; the footer is present when some element    *)
(* lies within it.                                                         *)
(***************************************************************************)
MaxElements == 2
MaxInits == 2
Elements == 1..MaxElements
StatsContainer == 0

sliderImageSelector == ".image-wrapper.slider"
imageConfigs == <<".image-wrapper.portrait", ".wide-image-wrapper",
                  ".cta-image-wrapper", ".section-hero-image-wrapper",
                  ".ceo-image-wrapper">>
imageWrapperSelectors == <<".right-image-wrapper", ".brand-logo-wrapper",
                           ".quick-stack-img-wrapper",
                           ".residential-slider-image-wrap",
                           ".grid-image-wrapper",
                           ".commercial-project-img-wrapper">>
headingSelectors == <<".section-name", ".section-heading", ".pattern-heading",
                      ".stats-heading", ".status-heading", ".cta-heading",
                      ".project-grid-name", ".stats", ".page-hero-heading",
                      ".project-heading">>
fadeInSelectors == <<".pattern-sub-heading", ".project-sub-heading",
                     ".paragraph", ".stats-sub-heading", ".sub-heading",
                     ".button">>
logoSelectors == <<".center-logo-wrapper", ".center-logo-calma",
                   ".calma-logo-wrapper", ".grid-icon">>
\* footerElements, lines 209-220, in property order; all = querySelectorAll
footerElements ==
  << [sel |-> ".footer-logo-div", all |-> FALSE],
     [sel |-> ".footer-left-grid", all |-> FALSE],
     [sel |-> ".download-heading", all |-> FALSE],
     [sel |-> ".download-text", all |-> TRUE],
     [sel |-> ".line.footer", all |-> TRUE],
     [sel |-> ".footer-middle-div", all |-> FALSE],
     [sel |-> ".footer-text", all |-> TRUE],
     [sel |-> ".footer-bottom-div", all |-> FALSE],
     [sel |-> ".terms-heading", all |-> TRUE],
     [sel |-> ".icon", all |-> TRUE] >>

Range(q) == {q[i] : i \in DOMAIN q}
FooterClasses == {f.sel : f \in Range(footerElements)}

KindNames == {"sliderImage", "portrait", "gridImageIcon", "heading",
              "statsHeading", "paragraph", "logo", "statLine", "stat",
              "statsBare", "footerFull", "footerNoIcons", "footerNoLogo",
              "footerBare"}

\* classes (as the selectors they satisfy) of an element of kind k
KindCls(k) ==
  CASE k = "sliderImage" -> {".image-wrapper.slider"}
    [] k = "portrait" -> {".image-wrapper.portrait"}
    [] k = "gridImageIcon" -> {".grid-image-wrapper", ".grid-icon"}
    [] k = "heading" -> {".section-heading"}
    [] k = "statsHeading" -> {".stats-heading", ".stats"}
    [] k = "paragraph" -> {".paragraph"}
    [] k = "logo" -> {".center-logo-wrapper"}
    [] k = "statLine" -> {".line"}
    [] k = "stat" -> {".stats"}
    [] k = "footerFull" -> FooterClasses
    [] k = "footerNoIcons" -> FooterClasses \ {".icon"}
    [] k = "footerNoLogo" -> FooterClasses \ {".footer-logo-div"}
    [] OTHER -> {}

\* container the element lies within
KindWithin(k) ==
  CASE k \in {"statLine", "stat", "statsBare"} -> "stats"
    [] k \in {"footerFull", "footerNoIcons", "footerNoLogo", "footerBare"}
         -> "footer"
    [] OTHER -> "page"

Present(d) == {e \in Elements : d[e] # "absent"}
HasFooter(d) == \E e \in Present(d) : KindWithin(d[e]) = "footer"
HasStats(d) == \E e \in Present(d) : KindWithin(d[e]) = "stats"

\* the elements a selector matches (the stats container carries .stats)
Matches(d, sel) ==
  {e \in Present(d) : sel \in KindCls(d[e])}
    \cup (IF sel = ".stats" /\ HasStats(d) THEN {StatsContainer} ELSE {})
FooterMatches(d, sel) ==
  {e \in Matches(d, sel) : e # StatsContainer /\ KindWithin(d[e]) = "footer"}
StatsMatches(d, sel) ==
  {e \in Matches(d, sel) : e # StatsContainer /\ KindWithin(d[e]) = "stats"}

RECURSIVE SortedSeq(_)
SortedSeq(S) ==
  IF S = {} THEN <<>>
  ELSE LET m == CHOOSE x \in S : \A y \in S : x <= y
       IN <<m>> \o SortedSeq(S \ {m})

\* document.querySelectorAll(sel): matches in document order
QSA(d, sel) == SortedSeq(Matches(d, sel))

\* selectors.flatMap(sel => Array.from(document.querySelectorAll(sel)))
RECURSIVE FlatMap(_, _)
FlatMap(d, sels) ==
  IF sels = <<>> THEN <<>> ELSE QSA(d, Head(sels)) \o FlatMap(d, Tail(sels))

\* split.words of heading e: the word spans SplitType creates in e
Word(e) == 0 - (e + 1)
Targets == (0..MaxElements) \cup {Word(e) : e \in 0..MaxElements}

HintSet == "transform, opacity"
HintAuto == "auto"

\* statement sequencing: the value of x is computed once and handed to F
Then(x, F(_)) == CHOOSE r \in {F(v) : v \in {x}} : TRUE

\* addWillChange, lines 8-12
AddWillChange(wc, els) ==
  [t \in DOMAIN wc |-> IF t \in Range(els) THEN HintSet ELSE wc[t]]

\* faulty variant: the hint is left in place
RemoveWillChange_Keeps(wc, els) == wc

\* removeWillChange, lines 15-19
RemoveWillChange(wc, els) ==
  [t \in DOMAIN wc |-> IF t \in Range(els) THEN HintAuto ELSE wc[t]]

\* one call of gsap.fromTo / gsap.from / gsap.timeline / timeline.from:
\* targets are animated, hints are cleared by its onComplete
Reg(api, group, targets, hints, trigger) ==
  [api |-> api, group |-> group, targets |-> targets, hints |-> hints,
   trigger |-> trigger]

\* createOptimizedScrollTrigger, lines 22-50
CreateOptimizedScrollTrigger(st, elements, group) ==
  IF Len(elements) = 0 THEN st
  ELSE [st EXCEPT
          !.wc = AddWillChange(st.wc, elements),
          !.regs = Append(st.regs,
                          Reg("fromTo", group, elements, elements,
                              elements[1]))]

\* one selector of initOptimizedImageAnimations, lines 55-68, 100-108 and
\* 120-128
ImageGroup(st, d, sel) ==
  LET elements == QSA(d, sel)
  IN IF Len(elements) > 0
     THEN CreateOptimizedScrollTrigger(st, elements, sel)
     ELSE st

RECURSIVE ImageGroups(_, _, _)
ImageGroups(st, d, sels) ==
  IF sels = <<>> THEN st
  ELSE Then(ImageGroup(st, d, Head(sels)),
            LAMBDA s : ImageGroups(s, d, Tail(sels)))

\* initOptimizedImageAnimations, lines 53-129
InitOptimizedImageAnimations(st, d) ==
  ImageGroups(st, d,
              <<sliderImageSelector>> \o imageConfigs \o imageWrapperSelectors)

\* faulty variant: the data-split-done marker is not consulted
HeadingStep_NoMarker(st, el, split) ==
  IF ~split THEN [st EXCEPT !.err = "ReferenceError"]
  ELSE [st EXCEPT
          !.split = st.split \cup {el},
          !.tokenized = Append(st.tokenized, el),
          !.wc = AddWillChange(st.wc, <<Word(el)>>),
          !.regs = Append(st.regs,
                          Reg("from", "heading", <<Word(el)>>, <<Word(el)>>,
                              el))]

\* the body of allHeadings.forEach for one heading, lines 145-166;
\* new SplitType raises a ReferenceError when SplitType is not defined
HeadingStep(st, el, split) ==
  IF el \in st.split THEN st
  ELSE IF ~split THEN [st EXCEPT !.err = "ReferenceError"]
  ELSE [st EXCEPT
          !.split = st.split \cup {el},
          !.tokenized = Append(st.tokenized, el),
          !.wc = AddWillChange(st.wc, <<Word(el)>>),
          !.regs = Append(st.regs,
                          Reg("from", "heading", <<Word(el)>>, <<Word(el)>>,
                              el))]

RECURSIVE HeadingLoop(_, _, _)
HeadingLoop(st, els, split) ==
  IF els = <<>> \/ st.err # "none" THEN st
  ELSE Then(HeadingStep(st, Head(els), split),
            LAMBDA s : HeadingLoop(s, Tail(els), split))

\* lines 169-184 and 186-201
FlatGroup(st, d, sels, group) ==
  LET all == FlatMap(d, sels)
  IN IF Len(all) > 0 THEN CreateOptimizedScrollTrigger(st, all, group)
     ELSE st

\* initOptimizedTextAnimations, lines 132-202
InitOptimizedTextAnimations(st, d, split) ==
  Then(HeadingLoop(st, FlatMap(d, headingSelectors), split),
       LAMBDA s1 :
         IF s1.err # "none" THEN s1
         ELSE Then(FlatGroup(s1, d, fadeInSelectors, "fadeIn"),
                   LAMBDA s2 : FlatGroup(s2, d, logoSelectors, "logo")))

\* value of one property of footerElements: the first match or nothing for
\* querySelector, every match for querySelectorAll
FooterValue(d, f) ==
  LET m == SortedSeq(FooterMatches(d, f.sel))
  IN IF f.all \/ Len(m) = 0 THEN m ELSE <<m[1]>>

\* lines 223-229 for one value: an empty NodeList is truthy and its length
\* is falsy, so it is passed as the only item to addWillChange, line 227,
\* where el.style is undefined and the assignment raises a TypeError
FooterHint(st, d, f) ==
  LET v == FooterValue(d, f)
  IN IF Len(v) > 0 THEN [st EXCEPT !.wc = AddWillChange(st.wc, v)]
     ELSE IF f.all THEN [st EXCEPT !.err = "TypeError"]
     ELSE st

RECURSIVE FooterHints(_, _, _)
FooterHints(st, d, fs) ==
  IF fs = <<>> \/ st.err # "none" THEN st
  ELSE Then(FooterHint(st, d, Head(fs)),
            LAMBDA s : FooterHints(s, d, Tail(fs)))

\* every element held by footerElements
RECURSIVE FooterAll(_, _)
FooterAll(d, fs) ==
  IF fs = <<>> THEN <<>>
  ELSE FooterValue(d, Head(fs)) \o FooterAll(d, Tail(fs))

\* lines 250-259: tl.from is called for every property, matched or not
RECURSIVE FooterSteps(_, _, _)
FooterSteps(st, d, fs) ==
  IF fs = <<>> THEN st
  ELSE Then([st EXCEPT !.regs = Append(st.regs,
                 Reg("tl.from", Head(fs).sel, FooterValue(d, Head(fs)), <<>>,
                     "footer"))],
            LAMBDA s : FooterSteps(s, d, Tail(fs)))

\* initOptimizedFooterAnimation, lines 205-260
InitOptimizedFooterAnimation(st, d) ==
  IF ~HasFooter(d) THEN st
  ELSE Then(FooterHints(st, d, footerElements),
            LAMBDA s1 :
              IF s1.err # "none" THEN s1
              ELSE Then([s1 EXCEPT !.regs = Append(s1.regs,
                           Reg("timeline", "footer", <<>>,
                               FooterAll(d, footerElements), "footer"))],
                        LAMBDA s2 : FooterSteps(s2, d, footerElements)))

\* initOptimizedStatsAnimation, lines 263-306 (one container)
InitOptimizedStatsAnimation(st, d) ==
  IF ~HasStats(d) THEN st
  ELSE LET lines == SortedSeq(StatsMatches(d, ".line"))
           stats == SortedSeq(StatsMatches(d, ".stats"))
       IN IF Len(lines) = 0 /\ Len(stats) = 0 THEN st
          ELSE Then(
                 [st EXCEPT
                    !.wc = AddWillChange(st.wc, lines \o stats),
                    !.regs = Append(st.regs,
                       Reg("timeline", "stats", <<>>, lines \o stats,
                           StatsContainer))],
                 LAMBDA s1 :
                   Then(IF Len(lines) > 0
                        THEN [s1 EXCEPT !.regs = Append(s1.regs,
                                Reg("tl.from", ".line", lines, <<>>,
                                    StatsContainer))]
                        ELSE s1,
                        LAMBDA s2 :
                          IF Len(stats) > 0
                          THEN [s2 EXCEPT !.regs = Append(s2.regs,
                                  Reg("tl.from", ".stats", stats, <<>>,
                                      StatsContainer))]
                          ELSE s2))

\* faulty variant: the guard of line 311 written with && instead of ||
LibrariesMissing_Both(g, t) == ~g /\ ~t

\* the guard of line 311
LibrariesMissing(g, t) == ~g \/ ~t

\* initGSAPOptimizations, lines 309-332, from the state st of the page;
\* an exception ends the run where it is raised
InitGSAPRun(st, d, g, t, split) ==
  IF LibrariesMissing(g, t) THEN [st EXCEPT !.warned = TRUE]
  ELSE IF ~g \/ ~t THEN [st EXCEPT !.err = "ReferenceError"]
  ELSE Then(InitOptimizedImageAnimations(st, d), LAMBDA s1 :
       Then(InitOptimizedTextAnimations(s1, d, split), LAMBDA s2 :
       Then(IF s2.err # "none" THEN s2
            ELSE InitOptimizedFooterAnimation(s2, d), LAMBDA s3 :
       Then(IF s3.err # "none" THEN s3
            ELSE InitOptimizedStatsAnimation(s3, d), LAMBDA s4 :
       IF s4.err # "none" THEN s4 ELSE [s4 EXCEPT !.refreshed = TRUE]))))

NoGsapLast == [runs |-> 0, warned |-> FALSE, err |-> "none",
               refreshed |-> FALSE, tokenized |-> <<>>]

InitGsap ==
  /\ gsapLoaded \in BOOLEAN
  /\ scrollTriggerLoaded \in BOOLEAN
  /\ splitTypeLoaded \in BOOLEAN
  /\ dom \in [Elements -> KindNames \cup {"absent"}]
  /\ willChange = [t \in Targets |-> ""]
  /\ splitDone = {}
  /\ regs = <<>>
  /\ completed = {}
  /\ refreshes = 0
  /\ gsapLast = NoGsapLast

\* initGSAPOptimizations runs: at document-ready (lines 342-346) or called
\* through window.initGSAPOptimizations (line 338)
InitGSAPOptimizations ==
  /\ gsapLast.runs < MaxInits
  /\ \E st \in {[wc |-> willChange, split |-> splitDone, regs |-> regs,
                  err |-> "none", warned |-> FALSE, refreshed |-> FALSE,
                  tokenized |-> <<>>]} :
     \E r \in {InitGSAPRun(st, dom, gsapLoaded, scrollTriggerLoaded,
                           splitTypeLoaded)} :
        /\ willChange' = r.wc
        /\ splitDone' = r.split
        /\ regs' = r.regs
        /\ refreshes' = refreshes + (IF r.refreshed THEN 1 ELSE 0)
        /\ gsapLast' = [runs |-> gsapLast.runs + 1, warned |-> r.warned,
                        err |-> r.err, refreshed |-> r.refreshed,
                        tokenized |-> r.tokenized]
  /\ UNCHANGED <<gsapLoaded, scrollTriggerLoaded, splitTypeLoaded, dom,
                 completed>>

\* the onComplete callback of a registered animation or timeline runs
\* (lines 43-47, 164, 237-246, 281); once: true, so at most once each
AnimationComplete ==
  \E i \in DOMAIN regs :
    /\ regs[i].api # "tl.from"
    /\ i \notin completed
    /\ completed' = completed \cup {i}
    /\ willChange' = RemoveWillChange(willChange, regs[i].hints)
    /\ UNCHANGED <<gsapLoaded, scrollTriggerLoaded, splitTypeLoaded, dom,
                   splitDone, regs, refreshes, gsapLast>>

otherThanGsap == <<menuVars, sliderVars, rippleVars, scrollVars, imageVars,
                   observerVars>>

NextGsap ==
  \/ InitGSAPOptimizations /\ UNCHANGED otherThanGsap
  \/ AnimationComplete /\ UNCHANGED otherThanGsap

(***************************************************************************)
(* Claims about the slider and the mobile menu                             *)
(***************************************************************************)
\* horizontal displacement of the session the last slider touch-end closed
SliderDx == sliderLast.ex - sliderLast.sx

SliderEnded == sliderLast.ev = "end" /\ ~sliderLast.vert

\* C1: a slider session that is not vertical, with |dx| <= 50px and a
\* velocity |dx| / elapsed <= 0.5 px/ms, clicks neither arrow at touch-end.
C1_SlowShortSwipeNoNavigation ==
  (/\ SliderEnded
   /\ Abs(SliderDx) <= 50
   /\ 2 * Abs(SliderDx) <= sliderLast.elapsed)
  => (sliderLast.left = 0 /\ sliderLast.right = 0)

\* C2: on a slider with both arrows, a non-vertical session with |dx| > 50px
\* or velocity > 0.5 px/ms clicks exactly one arrow at touch-end: the left
\* one when dx > 0, the right one when dx < 0.
C2_SwipeClicksOneArrow ==
  (/\ leftArrow /\ rightArrow
   /\ SliderEnded
   /\ (Abs(SliderDx) > 50 \/ 2 * Abs(SliderDx) > sliderLast.elapsed))
  => /\ sliderLast.left + sliderLast.right = 1
     /\ (SliderDx > 0 => sliderLast.left = 1)
     /\ (SliderDx < 0 => sliderLast.right = 1)

\* C3: after the touch-end of any session (vertical or not) the tracking
\* state of the element equals its idle initial state.
C3_TouchEndResetsTracking ==
  /\ (menuLast.ev = "end" =>
        touchStartX = 0 /\ touchStartY = 0 /\ touchEndX = 0 /\ ~isScrolling)
  /\ (sliderLast.ev = "end" =>
        startX = 0 /\ startY = 0 /\ ~isDragging /\ ~isVerticalScroll)

\* C4: for a slider whose data-autoplay was 'true', data-autoplay is 'false'
\* during a session, and 'true' again with no data-temp-autoplay marker
\* whenever no session is active (after touch-end or touch-cancel).
C4_AutoplayRestoredWhenIdle ==
  autoplayBefore = "true" =>
    /\ (sliderPhase = "tracking" => dataAutoplay = "false")
    /\ (sliderPhase = "idle" =>
          dataAutoplay = "true" /\ dataTempAutoplay = "absent")

\* C5: a menu session that is not vertical calls the menu-close action once
\* at touch-end when start X - end X > 100px, and not at all otherwise.
C5_MenuCloseIffOver100 ==
  (menuLast.ev = "end" /\ ~menuLast.vert) =>
    /\ (menuLast.sx - menuLast.ex > 100 => menuLast.closes = 1)
    /\ (menuLast.sx - menuLast.ex <= 100 => menuLast.closes = 0)

C5_Witness ==
  /\ menuLast.ev = "end" /\ ~menuLast.vert
  /\ menuLast.sx - menuLast.ex = 120
  /\ menuLast.closes = 1

(***************************************************************************)
(* Claims about ripples and the scroll throttle                            *)
(***************************************************************************)
\* C6: a ripple is attached only while its own timer is pending (so none is
\* left once all timers have fired); a timer callback changes no ripple but
\* its own and raises no error, also when its ripple was detached before;
\* and every ripple whose timer is pending is eventually fired and removed.
C6_RippleLifecycle ==
  /\ [](\A r \in RippleIds :
          rippleParent[r] # "none" => rippleTimer[r] = "pending")
  /\ [][rippleLast'.ev = "timer" =>
          /\ ~rippleLast'.error
          /\ \A r \in RippleIds \ {rippleLast'.id} :
               rippleParent'[r] = rippleParent[r]]_vars
  /\ \A r \in RippleIds :
       (rippleTimer[r] = "pending")
         ~> (rippleTimer[r] = "fired" /\ rippleParent[r] = "none")

\* two ripples coexisted on one element and the first timer removed only
\* its own ripple
C6_Witness ==
  /\ rippleLast.ev = "timer" /\ rippleLast.id = 1
  /\ rippleParent[1] = "none"
  /\ rippleParent[2] = "button" /\ rippleTimer[2] = "pending"

\* C7: at most one frame callback is scheduled, the pending flag is true
\* exactly when one is scheduled, and a frame that follows N >= 1 scroll
\* events runs the class update exactly once ('scrolled' iff offset > 100).
C7_ScrollThrottle ==
  /\ rafQueue <= 1
  /\ (ticking <=> rafQueue = 1)
  /\ (scrollLast.ev = "frame" /\ scrollLast.events >= 1 =>
        /\ scrollLast.updates = 1
        /\ (scrolled <=> scrollLast.y > 100))

C7_Witness ==
  /\ scrollLast.ev = "frame" /\ scrollLast.events = 3
  /\ scrollLast.updates = 1 /\ scrolled

(***************************************************************************)
(* Claims about the animation orchestrator                                 *)
(***************************************************************************)
InitRan == gsapLast.runs >= 1

\* C8: with the animation library and the scroll plugin present, the
\* tokenization utility absent and at least one heading on the page,
\* initialization raises no exception and runs through to the final
\* scroll-trigger refresh.
C8_NoExceptionWithoutSplitType ==
  (/\ InitRan
   /\ gsapLoaded /\ scrollTriggerLoaded /\ ~splitTypeLoaded
   /\ FlatMap(dom, headingSelectors) # <<>>)
  => (gsapLast.err = "none" /\ gsapLast.refreshed)

\* C9: when the animation library or the scroll plugin is absent, a run of
\* initGSAPOptimizations warns and returns with no effect: no hint is set,
\* no heading is marked, nothing is registered or refreshed.
C9_MissingLibraryNoEffect ==
  (InitRan /\ (~gsapLoaded \/ ~scrollTriggerLoaded))
  => /\ gsapLast.warned
     /\ gsapLast.err = "none"
     /\ regs = <<>>
     /\ \A t \in Targets : willChange[t] = ""
     /\ splitDone = {}
     /\ refreshes = 0

C9_Witness ==
  /\ InitRan /\ gsapLast.warned
  /\ gsapLoaded /\ ~scrollTriggerLoaded
  /\ dom[1] = "heading" /\ dom[2] = "sliderImage"

RegCount(api, group) ==
  Cardinality({i \in DOMAIN regs :
                 regs[i].api = api /\ regs[i].group = group})
OneIfAny(S) == IF S = {} THEN 0 ELSE 1

\* C10: after one initialization with every library present, each group
\* has exactly the registrations its own matches call for: none when its
\* selector matches nothing, one when it matches, whatever the other groups
\* match.
C10_GroupsIndependent ==
  (/\ gsapLast.runs = 1
   /\ gsapLoaded /\ scrollTriggerLoaded /\ splitTypeLoaded)
  => /\ \A sel \in {sliderImageSelector} \cup Range(imageConfigs)
                     \cup Range(imageWrapperSelectors) :
          RegCount("fromTo", sel) = OneIfAny(Matches(dom, sel))
     /\ RegCount("from", "heading")
          = Cardinality(Range(FlatMap(dom, headingSelectors)))
     /\ RegCount("fromTo", "fadeIn")
          = OneIfAny(Range(FlatMap(dom, fadeInSelectors)))
     /\ RegCount("fromTo", "logo")
          = OneIfAny(Range(FlatMap(dom, logoSelectors)))
     /\ RegCount("timeline", "footer") = (IF HasFooter(dom) THEN 1 ELSE 0)
     /\ \A sel \in FooterClasses :
          RegCount("tl.from", sel) = OneIfAny(FooterMatches(dom, sel))
     /\ RegCount("timeline", "stats")
          = OneIfAny(StatsMatches(dom, ".line") \cup StatsMatches(dom, ".stats"))
     /\ RegCount("tl.from", ".line") = OneIfAny(StatsMatches(dom, ".line"))
     /\ RegCount("tl.from", ".stats") = OneIfAny(StatsMatches(dom, ".stats"))

\* headings of the page, and how often one was animated / tokenized
Headings == Range(FlatMap(dom, headingSelectors))
WordAnimations(e) ==
  Cardinality({i \in DOMAIN regs : regs[i].api = "from" /\ regs[i].trigger = e})
TokenizedInLastRun(e) ==
  Cardinality({k \in DOMAIN gsapLast.tokenized : gsapLast.tokenized[k] = e})
AllLibraries == gsapLoaded /\ scrollTriggerLoaded /\ splitTypeLoaded

\* C11: however often the heading setup runs, and also when a heading
\* matches several heading selectors, a heading is tokenized at most once
\* in a run and never again once marked; with every library present each
\* heading ends with the marker and exactly one word animation.
C11_TokenizeOnce ==
  /\ \A e \in 0..MaxElements :
       WordAnimations(e) <= 1 /\ TokenizedInLastRun(e) <= 1
  /\ (InitRan /\ AllLibraries) =>
       /\ \A e \in Headings : WordAnimations(e) = 1 /\ e \in splitDone
       /\ (gsapLast.runs >= 2 => gsapLast.tokenized = <<>>)

\* the setup ran twice on a page whose heading matches two selectors
C11_Witness ==
  /\ gsapLast.runs = 2 /\ AllLibraries
  /\ dom[1] = "statsHeading"
  /\ WordAnimations(1) = 1

\* C13: the setup of the orchestrator is applied once: running
\* initGSAPOptimizations again (document-ready, then a call through
\* window.initGSAPOptimizations) adds no second animation, timeline or
\* timeline step for a group that is already set up.
C13_InitIdempotent ==
  \A i, j \in DOMAIN regs :
    (/\ i # j
     /\ regs[i].api = regs[j].api
     /\ regs[i].group = regs[j].group)
    => regs[i].targets # regs[j].targets

C18_HintHeldUntilAllComplete ==
  \A t \in Targets :
    (\E i \in DOMAIN regs :
       /\ regs[i].api # "tl.from"
       /\ t \in Range(regs[i].hints)
       /\ i \notin completed)
    => willChange[t] = "transform, opacity"

\* C20: a menu swipe or a call of closeMobileMenu never opens a closed
\* menu: the toggle button is clicked only while it carries the open marker,
\* at most once per call, and a click closes the open menu.
C20_CloseNeverOpens ==
  [][menuLast'.ev \in {"end", "call"} =>
       /\ menuLast'.clicks <= menuLast'.closes
       /\ menuLast'.clicks <= 1
       /\ ~menuOpen => (~menuOpen' /\ menuLast'.clicks = 0)
       /\ (menuOpen /\ menuLast'.closes = 1) =>
            (~menuOpen' /\ menuLast'.clicks = 1)]_vars

\* a swipe past the threshold has called closeMobileMenu on a closed menu
C20_Witness ==
  /\ menuLast.ev = "end"
  /\ menuLast.closes = 1
  /\ menuLast.clicks = 0
  /\ ~menuOpen

\* C14: the dragging flag of a slider is set only between a touchstart and
\* the touchend or touchcancel that ends the sequence; once the sequence is
\* over the flag is false and the autoplay suppression is lifted.
C14_DraggingOnlyInSession ==
  sliderPhase = "idle" =>
    /\ ~isDragging
    /\ dataTempAutoplay = "absent"
    /\ dataAutoplay = autoplayBefore

\* C15: once a touchmove of a slider session is mostly vertical (|dy| > |dx|
\* and |dy| > 10) the session stays vertical: no later touchmove calls
\* preventDefault and the touchend clicks no arrow; preventDefault is called
\* on a touchmove only when |dx| > 10 and the session is not vertical.
C15_VerticalSticks ==
  /\ (sliderPhase = "tracking" /\ sliderLast.vseen) => isVerticalScroll
  /\ (sliderLast.ev = "move" /\ sliderLast.vseen) => ~sliderLast.prevented
  /\ (sliderLast.ev = "end" /\ sliderLast.vseen) =>
       (sliderLast.left = 0 /\ sliderLast.right = 0)
  /\ (sliderLast.ev = "move" /\ sliderLast.prevented) =>
       (Abs(currentX - startX) > 10 /\ ~sliderLast.vseen)

\* a vertical session has ended more than 50px away horizontally, with both
\* arrows present
C15_Witness ==
  /\ sliderLast.ev = "end"
  /\ sliderLast.vseen
  /\ Abs(sliderLast.ex - sliderLast.sx) > 50
  /\ leftArrow /\ rightArrow

\* C12: the touchend that closes a drag on an image container dispatches
\* one imageNavigate event when |dx| > 50 ('prev' for dx > 0, 'next' for
\* dx < 0) and none when |dx| <= 50; apart from the feedback timer it starts,
\* it changes only the container's transform and transition and the
\* dragging flag.
C12_ImageEndDispatch ==
  [][(imgPhase = "tracking" /\ imgLast'.ev = "end") =>
       LET dx == imgLast'.ex - imgLast.sx
       IN /\ imgLast.sx = imgStartX
          /\ dx > 50 => imgLast'.dispatched = <<"prev">>
          /\ dx < 0 - 50 => imgLast'.dispatched = <<"next">>
          /\ Abs(dx) <= 50 => imgLast'.dispatched = <<>>
          /\ imgTimers' = imgTimers + Len(imgLast'.dispatched)
          /\ ~imgDragging'
          /\ UNCHANGED <<imgStartX, imgCurrentX, otherThanImage>>]_vars

\* a drag has ended 51px to the left and dispatched 'next'
C12_Witness ==
  /\ imgLast.ev = "end"
  /\ imgLast.ex - imgLast.sx = 0 - 51
  /\ imgLast.dispatched = <<"next">>
  /\ imgTransform = Scale(95)

\* C16: once the observer has processed the queued style changes of the
\* mobile menu, body overflow is 'hidden' exactly when the menu's inline
\* display is not 'none' and its inline visibility is not 'hidden', and ''
\* otherwise.
C16_LockFollowsMenu ==
  (obsLast.ev = "callback" /\ obsPending = 0) =>
     /\ bodyOverflow \in {"hidden", ""}
     /\ bodyOverflow = "hidden" <=>
          (menuDisplay # "none" /\ menuVisibility # "hidden")

\* a batch of two changes, ending with the menu hidden, has been processed
C16_Witness ==
  /\ obsLast = [ev |-> "callback", records |-> 2]
  /\ menuDisplay = "none"
  /\ menuVisibility = "visible"
  /\ bodyOverflow = ""

\* C19: during a drag on an image container the transform is the preview
\* of the latest touchmove (a timer of an earlier navigation never
\* overwrites it); with no drag and no timer pending the transform is an
\* identity (none, translateX(0) or scale(1)).  The states after a
\* cancelled drag, which C14 is about, are not constrained here.
C19_PreviewNotOverwritten ==
  /\ (imgPhase = "tracking" /\ imgLast.moved) =>
       imgTransform = TranslateX(3 * (imgCurrentX - imgStartX))
  /\ (imgPhase = "idle" /\ imgTimers = 0 /\ imgLast.ev # "cancel") =>
       imgTransform \in {NoTransform, TranslateX(0), Scale(100)}

\* C21: once a scroll event has occurred and no frame callback is pending,
\* the body has the class 'scrolled' exactly when the offset read by the
\* last callback was above 100; and every scroll event is followed by a
\* frame whose callback runs, after which the class reflects the offset of
\* the last scroll event.
C21_ScrollClassEventuallyConsistent ==
  /\ []((scrollLast.seen /\ rafQueue = 0 /\ ~ticking) =>
          (scrolled <=> scrollLast.read > 100))
  /\ (scrollLast.ev = "scroll") ~>
       (/\ scrollLast.ev = "frame"
        /\ scrollLast.updates = 1
        /\ rafQueue = 0 /\ ~ticking
        /\ scrollLast.read = pageYOffset
        /\ scrolled <=> pageYOffset > 100)

\* two scroll events ending at offset 100 were followed by one callback,
\* which left the class off
C21_Witness ==
  /\ scrollLast.ev = "frame"
  /\ scrollLast.seen
  /\ scrollLast.events = 2 /\ scrollLast.updates = 1
  /\ scrollLast.read = 100 /\ pageYOffset = 100
  /\ ~scrolled /\ ~ticking

\* C22: the outcome of a gesture session on the mobile menu (closeMobileMenu
\* called or not) and on a slider (which arrow is clicked, if any) is the
\* outcome the same touchstart, touchmove and touchend events have when the
\* tracking values hold nothing of an earlier session.
C22_SessionIndependence ==
  /\ menuLast.ev = "end" => menuLast.closes = menuLast.fcloses
  /\ sliderLast.ev = "end" =>
       /\ sliderLast.left = sliderLast.fleft
       /\ sliderLast.right = sliderLast.fright

\* a menu session that found isScrolling left true by an earlier session
\* (a vertical one, whose touchend returned before the reset) has closed
\* the menu
C22_Witness ==
  /\ menuLast.ev = "end"
  /\ menuLast.stale
  /\ menuLast.closes = 1 /\ menuLast.clicks = 1

(***************************************************************************)
(* Specifications                                                          *)
(***************************************************************************)
\* one page for the subsystems a specification leaves alone
IdleMenu == InitMenu /\ ~menuOpen
IdleSlider ==
  InitSlider /\ dataAutoplay = "absent" /\ leftArrow /\ rightArrow
IdleRipple == InitRipple
IdleScroll == InitScroll /\ pageYOffset = 0
IdleGsap ==
  /\ gsapLoaded = TRUE
  /\ scrollTriggerLoaded = TRUE
  /\ splitTypeLoaded = TRUE
  /\ dom = [e \in Elements |-> "absent"]
  /\ willChange = [t \in Targets |-> ""]
  /\ splitDone = {}
  /\ regs = <<>>
  /\ completed = {}
  /\ refreshes = 0
  /\ gsapLast = NoGsapLast
IdleImage == InitImage
IdleObserver == InitObserver
IdleRest == IdleImage /\ IdleObserver

InitMenuPage ==
  InitMenu /\ IdleSlider /\ IdleRipple /\ IdleScroll /\ IdleGsap /\ IdleRest
InitSliderPage ==
  IdleMenu /\ InitSlider /\ IdleRipple /\ IdleScroll /\ IdleGsap /\ IdleRest
InitRipplePage ==
  IdleMenu /\ IdleSlider /\ InitRipple /\ IdleScroll /\ IdleGsap /\ IdleRest
InitScrollPage ==
  IdleMenu /\ IdleSlider /\ IdleRipple /\ InitScroll /\ IdleGsap /\ IdleRest
InitGsapPage ==
  IdleMenu /\ IdleSlider /\ IdleRipple /\ IdleScroll /\ InitGsap /\ IdleRest
InitImagePage ==
  /\ IdleMenu /\ IdleSlider /\ IdleRipple /\ IdleScroll /\ IdleGsap
  /\ InitImage /\ IdleObserver
InitObserverPage ==
  /\ IdleMenu /\ IdleSlider /\ IdleRipple /\ IdleScroll /\ IdleGsap
  /\ IdleImage /\ InitObserver

SpecMenu == InitMenuPage /\ [][NextMenu]_vars
SpecSlider == InitSliderPage /\ [][NextSlider]_vars
SpecRipple == InitRipplePage /\ [][NextRipple]_vars
FairSpecRipple ==
  /\ InitRipplePage
  /\ [][NextRipple]_vars
  /\ WF_vars(RippleTimerFire /\ UNCHANGED otherThanRipple)
SpecScroll == InitScrollPage /\ [][NextScroll]_vars
\* the browser runs the callbacks of requestAnimationFrame at its next frame
FairSpecScroll ==
  /\ InitScrollPage
  /\ [][NextScroll]_vars
  /\ WF_vars(AnimationFrame /\ UNCHANGED otherThanScroll)
SpecGsap == InitGsapPage /\ [][NextGsap]_vars
\* gestures on the mobile menu or on a slider: the two sets of listeners
\* share no variable, and a behaviour sends its gestures to one of them
InitGesturesPage ==
  /\ \/ InitMenu /\ IdleSlider
     \/ IdleMenu /\ InitSlider /\ dataAutoplay = "absent"
  /\ IdleRipple /\ IdleScroll /\ IdleGsap /\ IdleRest
NextGestures ==
  \/ sliderLast.ev = "none" /\ NextMenu
  \/ menuLast.ev = "none" /\ NextSlider
SpecGestures == InitGesturesPage /\ [][NextGestures]_vars
SpecImage == InitImagePage /\ [][NextImage]_vars
SpecObserver == InitObserverPage /\ [][NextObserver]_vars

Init ==
  /\ InitMenu /\ InitSlider /\ InitRipple /\ InitScroll /\ IdleGsap
  /\ InitImage /\ InitObserver
Next ==
  \/ NextMenu \/ NextSlider \/ NextRipple \/ NextScroll \/ NextGsap
  \/ NextImage \/ NextObserver
Spec == Init /\ [][Next]_vars

=============================================================================
